---- MODULE Spec2Model ----
(***************************************************************************)
(* Versioned metadata codecs of the buildpack package:                      *)
(*   - layer metadata files  (src/buildpack/layermetadata.go)               *)
(*   - launch.toml, Require and Plan (src/unnamed/part_000)                 *)
(* A TOML document is modelled by its parsed content (the keys it holds     *)
(* and the TOML type of each value) or as a document with a syntax error.   *)
(***************************************************************************)
EXTENDS Integers, Sequences, FiniteSets, TLC

VARIABLES
    path,       \* the path argument of the layer metadata calls
    fsys,       \* the file at `path`
    lastEnc,    \* the last EncodeLayerMetadataFile call whose output is still on disk
    lres,       \* the outcome of the last layer metadata call
    handles,    \* the opens and closes of file handles made by that call, in order
    lfile,      \* the launch.toml file
    lt,         \* the last DecodeLaunchTOML call: its API, error and *LaunchTOML
    procs,      \* the launch.Process list made from lt
    req,        \* a Require
    reqPre,     \* the Require before the last operation on it
    rres,       \* the last operation on req and what it returned
    plan,       \* a buildpack Plan
    unmet,      \* the unmet list passed to Plan.filter
    planPre,    \* the Plan before the last operation on it
    pres        \* the last operation on plan and what it returned

layerVars == <<path, fsys, lastEnc, lres, handles>>

launchVars == <<lfile, lt, procs>>

requireVars == <<req, reqPre, rres>>

planVars == <<plan, unmet, planPre, pres>>

vars ==
    <<path, fsys, lastEnc, lres, handles, lfile, lt, procs, req, reqPre, rres,
      plan, unmet, planPre, pres>>

(***************************************************************************)
(* Buildpack API versions: <<major, minor>>.                                *)
(***************************************************************************)
Apis == {<<0, 5>>, <<0, 6>>, <<0, 9>>, <<1, 0>>}

\* api.Version.Compare: major first, then minor
Compare(v, w) ==
    IF v[1] # w[1] THEN (IF v[1] < w[1] THEN -1 ELSE 1)
    ELSE IF v[2] # w[2] THEN (IF v[2] < w[2] THEN -1 ELSE 1)
    ELSE 0

AtLeast(v, w) == Compare(v, w) >= 0

LessThan(v, w) == Compare(v, w) < 0

(***************************************************************************)
(* Values.                                                                  *)
(***************************************************************************)
Paths == {"layers/a.toml", "layers/b.toml"}

\* LayerMetadataFile.Data (interface{}): nil, or a TOML value: a string, or
\* a table with the given keys.
NilData == [kind |-> "nil", s |-> "", keys |-> {}]

DataValues ==
    { NilData,
      [kind |-> "string", s |-> "x", keys |-> {}],
      [kind |-> "table", s |-> "", keys |-> {"build", "types"}] }

\* the value of a key of a document: absent, a TOML boolean, or a value of
\* another TOML type ("other")
Absent == "absent"

KeyValues == {Absent, "true", "false", "other"}

\* the values of the flag keys in the files found on disk initially
InitKeyValues == {Absent, "true", "other"}

\* the `metadata` key of a document
NoMetadata == [kind |-> "absent", s |-> "", keys |-> {}]

\* the `types` key of a document: absent, not a table, or a table
NoTypes == [kind |-> "absent", build |-> Absent, launch |-> Absent, cache |-> Absent]

TypesValues ==
    { NoTypes,
      [kind |-> "other", build |-> Absent, launch |-> Absent, cache |-> Absent] }
    \cup [kind : {"table"}, build : InitKeyValues, launch : InitKeyValues,
          cache : InitKeyValues]

\* a file: missing, holding a document with a syntax error, or holding a
\* document
NoFile ==
    [exists |-> FALSE, syntaxOK |-> FALSE, build |-> Absent, launch |-> Absent,
     cache |-> Absent, types |-> NoTypes, metadata |-> NoMetadata]

BadFile == [NoFile EXCEPT !.exists = TRUE]

Documents ==
    [exists : {TRUE}, syntaxOK : {TRUE}, build : InitKeyValues,
     launch : InitKeyValues, cache : InitKeyValues, types : TypesValues,
     metadata : {NoMetadata, [kind |-> "table", s |-> "", keys |-> {"build", "types"}]}]

Files == {NoFile, BadFile} \cup Documents

\* a value of a Require's Metadata map (interface{}): no entry, or a
\* string, an integer or a boolean
NoValue == [kind |-> "none", s |-> "", n |-> 0, b |-> FALSE]

\* type LayerMetadataFile struct
LayerMetadataFiles ==
    [Data : DataValues, Build : BOOLEAN, Launch : BOOLEAN, Cache : BOOLEAN]

ZeroLayerMetadataFile ==
    [Data |-> NilData, Build |-> FALSE, Launch |-> FALSE, Cache |-> FALSE]

(***************************************************************************)
(* go-toml as used by the codecs.                                           *)
(***************************************************************************)
\* Encoder: a nil interface field is left out, any other value is written
EncodeData(d) == IF d.kind = "nil" THEN NoMetadata ELSE d

\* Decoder into interface{}: an absent key leaves nil
DecodeData(m) == IF m.kind = "absent" THEN NilData ELSE m

EncodeBool(b) == IF b THEN "true" ELSE "false"

\* Decoder into a bool field: an absent key leaves false; a value that is
\* not a boolean is an error
BoolOK(k) == k # "other"

DecodeBool(k) == k = "true"

\* Decoder into the typesTable struct
TypesOK(t) ==
    /\ t.kind # "other"
    /\ BoolOK(t.build) /\ BoolOK(t.launch) /\ BoolOK(t.cache)

\* top-level keys of a document
TopLevelKeys(f) ==
    {k \in {"build", "launch", "cache"} : f[k] # Absent}
    \cup (IF f.types.kind # "absent" THEN {"types"} ELSE {})
    \cup (IF f.metadata.kind # "absent" THEN {"metadata"} ELSE {})

(***************************************************************************)
(* Errors and advisory messages.                                            *)
(***************************************************************************)
ErrNil == "nil"

ErrDecodeError == "toml.DecodeError"          \* the parser's error, as is

ErrOther == "toml error"                      \* an error that is no *toml.DecodeError

ErrAnnotated == "error occurred at line L column C"

ErrNoDecoder == "couldn't find a decoder"

ErrNoEncoder == "couldn't find an encoder"

\* an advisory message is a sequence of parts; the empty message is <<>>
NoMsg == <<>>

MsgFlagsInTypes(p) ==
    <<"the launch, cache and build flags should be in the types table of ", p>>

MsgTypesUnsupported ==
    <<"Types table isn't supported in this buildpack api version. The launch, build and cache flags should be in the top level. Ignoring the values in the types table.">>

(***************************************************************************)
(* Layer metadata codec (layermetadata.go).                                 *)
(***************************************************************************)
defaultIsSupported(api) == AtLeast(api, <<0, 6>>)

legacyIsSupported(api) == LessThan(api, <<0, 6>>)

\* the error of toml's Decode on file f into a typed target: a syntax error
\* is a *toml.DecodeError; a value of the wrong type for its field is an
\* error that the library reports as a *toml.DecodeError or not (derr)
DecodeErr(f, typesFit, derr) ==
    IF ~f.syntaxOK THEN ErrDecodeError
    ELSE IF ~typesFit THEN (IF derr THEN ErrDecodeError ELSE ErrOther)
    ELSE ErrNil

\* errors.As(err, &derr): the position-annotated error, else err itself
Annotate(err) == IF err = ErrDecodeError THEN ErrAnnotated ELSE err

\* the outcome of a Decode: the value, the advisory, the error, and the
\* number of parses of the file that were made
Outcome(lmf, msg, err, parses) ==
    [lmf |-> lmf, msg |-> msg, err |-> err, parses |-> parses]

\* mutant: the scan stops after the first key of the list it is given
typesInTopLevel_FirstKeyOnly(f, stuffYoureNotSposedToHave) ==
    IF DecodeErr(f, TRUE, FALSE) # ErrNil
    THEN [has |-> FALSE, err |-> DecodeErr(f, TRUE, FALSE)]
    ELSE [has |-> (stuffYoureNotSposedToHave \cap {"build", "types"}
                      \cap TopLevelKeys(f)) # {},
          err |-> ErrNil]

\* typesInTopLevel: decodes into map[string]interface{} (any value fits).
\* The file is there when it is called: DecodeLayerMetadataFile has opened
\* it, and nothing else runs during the call.
typesInTopLevel(f, stuffYoureNotSposedToHave) ==
    IF DecodeErr(f, TRUE, FALSE) # ErrNil
    THEN [has |-> FALSE, err |-> DecodeErr(f, TRUE, FALSE)]
    ELSE [has |-> (stuffYoureNotSposedToHave \cap TopLevelKeys(f)) # {},
          err |-> ErrNil]

\* mutant: the current encoder writes the flags into the types table
defaultEncode_WritesTypes(lmf) ==
    [exists |-> TRUE, syntaxOK |-> TRUE, build |-> Absent, launch |-> Absent,
     cache |-> Absent,
     types |-> [kind |-> "table", build |-> EncodeBool(lmf.Build),
                launch |-> EncodeBool(lmf.Launch), cache |-> EncodeBool(lmf.Cache)],
     metadata |-> EncodeData(lmf.Data)]

defaultEncode(lmf) ==
    [exists |-> TRUE, syntaxOK |-> TRUE, build |-> Absent, launch |-> Absent,
     cache |-> Absent, types |-> NoTypes, metadata |-> EncodeData(lmf.Data)]

defaultDecode(p, f, derr) ==
    LET scan == typesInTopLevel(f, {"build", "launch", "cache"})
        msg == IF scan.has THEN MsgFlagsInTypes(p) ELSE NoMsg
        err == DecodeErr(f, TypesOK(f.types), derr)
    IN  IF scan.err # ErrNil
        THEN Outcome(ZeroLayerMetadataFile, NoMsg, scan.err, 1)
        ELSE IF err # ErrNil
        THEN Outcome(ZeroLayerMetadataFile, msg, Annotate(err), 2)
        ELSE Outcome([Data |-> DecodeData(f.metadata),
                      Build |-> DecodeBool(f.types.build),
                      Launch |-> DecodeBool(f.types.launch),
                      Cache |-> DecodeBool(f.types.cache)], msg, ErrNil, 2)

\* mutant: the legacy encoder leaves the cache flag out
legacyEncode_DropsCache(lmf) ==
    [exists |-> TRUE, syntaxOK |-> TRUE, build |-> EncodeBool(lmf.Build),
     launch |-> EncodeBool(lmf.Launch), cache |-> Absent,
     types |-> NoTypes, metadata |-> EncodeData(lmf.Data)]

legacyEncode(lmf) ==
    [exists |-> TRUE, syntaxOK |-> TRUE, build |-> EncodeBool(lmf.Build),
     launch |-> EncodeBool(lmf.Launch), cache |-> EncodeBool(lmf.Cache),
     types |-> NoTypes, metadata |-> EncodeData(lmf.Data)]

legacyDecode(p, f, derr) ==
    LET scan == typesInTopLevel(f, {"types"})
        msg == IF scan.has THEN MsgTypesUnsupported ELSE NoMsg
        err == DecodeErr(f, BoolOK(f.build) /\ BoolOK(f.launch) /\ BoolOK(f.cache), derr)
    IN  IF scan.err # ErrNil
        THEN Outcome(ZeroLayerMetadataFile, NoMsg, scan.err, 1)
        ELSE IF err # ErrNil
        THEN Outcome(ZeroLayerMetadataFile, msg, Annotate(err), 2)
        ELSE Outcome([Data |-> DecodeData(f.metadata),
                      Build |-> DecodeBool(f.build),
                      Launch |-> DecodeBool(f.launch),
                      Cache |-> DecodeBool(f.cache)], msg, ErrNil, 2)

\* the strategy a call selects: the first of supportedEncoderDecoders()
\* that supports the API
Strategy(api) ==
    IF defaultIsSupported(api) THEN "default"
    ELSE IF legacyIsSupported(api) THEN "legacy"
    ELSE "none"

\* EncodeLayerMetadataFile: the file written and the error
EncodeLayerMetadataFile(lmf, api) ==
    IF Strategy(api) = "default" THEN [file |-> defaultEncode(lmf), err |-> ErrNil]
    ELSE IF Strategy(api) = "legacy" THEN [file |-> legacyEncode(lmf), err |-> ErrNil]
    ELSE [file |-> [NoFile EXCEPT !.exists = TRUE, !.syntaxOK = TRUE], err |-> ErrNoEncoder]

\* mutant: a missing file is not told apart from another failure to open
DecodeLayerMetadataFile_NoNotExist(p, f, api, derr) ==
    IF ~f.exists
    THEN [out |-> Outcome(ZeroLayerMetadataFile, NoMsg, "open: no such file", 0),
          strategy |-> "none"]
    ELSE IF Strategy(api) = "default"
    THEN [out |-> defaultDecode(p, f, derr), strategy |-> "default"]
    ELSE [out |-> legacyDecode(p, f, derr), strategy |-> "legacy"]

\* DecodeLayerMetadataFile: the outcome and the strategy selected
DecodeLayerMetadataFile(p, f, api, derr) ==
    IF ~f.exists
    THEN [out |-> Outcome(ZeroLayerMetadataFile, NoMsg, ErrNil, 0), strategy |-> "none"]
    ELSE IF Strategy(api) = "default"
    THEN [out |-> defaultDecode(p, f, derr), strategy |-> "default"]
    ELSE IF Strategy(api) = "legacy"
    THEN [out |-> legacyDecode(p, f, derr), strategy |-> "legacy"]
    ELSE [out |-> Outcome(ZeroLayerMetadataFile, NoMsg, ErrNoDecoder, 0), strategy |-> "none"]

(***************************************************************************)
(* File handles of the layer metadata calls: the trace of os.Create /       *)
(* os.Open / os.OpenFile calls that returned a handle and of the deferred   *)
(* Close calls, in the order they run.                                      *)
(***************************************************************************)
OpenEv(h) == [ev |-> "open", h |-> h]

CloseEv(h) == [ev |-> "close", h |-> h]

\* mutant: the scan closes its handle only when the parse succeeded
typesInTopLevelHandles_LeakOnError(f) ==
    IF ~f.exists THEN <<>>
    ELSE IF DecodeErr(f, TRUE, FALSE) # ErrNil THEN <<OpenEv("typesInTopLevel.fs")>>
    ELSE <<OpenEv("typesInTopLevel.fs"), CloseEv("typesInTopLevel.fs")>>

\* typesInTopLevel: os.OpenFile, defer fs.Close() (layermetadata.go:130-134)
typesInTopLevelHandles(f) ==
    IF ~f.exists THEN <<>>
    ELSE <<OpenEv("typesInTopLevel.fs"), CloseEv("typesInTopLevel.fs")>>

\* defaultEncoderDecoder.Decode: the scan, then os.OpenFile and
\* defer fs.Close() unless the scan failed (layermetadata.go:98-111)
defaultDecodeHandles(f, derr) ==
    typesInTopLevelHandles(f) \o
    (IF typesInTopLevel(f, {"build", "launch", "cache"}).err # ErrNil \/ ~f.exists
     THEN <<>>
     ELSE <<OpenEv("Decode.fs"), CloseEv("Decode.fs")>>)

\* legacyEncoderDecoder.Decode (layermetadata.go:163-176)
legacyDecodeHandles(f, derr) ==
    typesInTopLevelHandles(f) \o
    (IF typesInTopLevel(f, {"types"}).err # ErrNil \/ ~f.exists
     THEN <<>>
     ELSE <<OpenEv("Decode.fs"), CloseEv("Decode.fs")>>)

\* EncodeLayerMetadataFile: os.Create, defer fh.Close(); the encoders write
\* to the handle they are given
EncodeHandles(api) == <<OpenEv("fh"), CloseEv("fh")>>

\* DecodeLayerMetadataFile: os.Open gives no handle for a missing file;
\* else defer fh.Close() runs after the strategy's Decode(path) returned
DecodeHandles(f, api, derr) ==
    IF ~f.exists THEN <<>>
    ELSE <<OpenEv("fh")>> \o
         (IF Strategy(api) = "default" THEN defaultDecodeHandles(f, derr)
          ELSE IF Strategy(api) = "legacy" THEN legacyDecodeHandles(f, derr)
          ELSE <<>>) \o
         <<CloseEv("fh")>>

NoCall ==
    [op |-> "none", api |-> <<0, 0>>, strategy |-> "none",
     out |-> Outcome(ZeroLayerMetadataFile, NoMsg, ErrNil, 0)]

NoEnc == [valid |-> FALSE, v |-> ZeroLayerMetadataFile, api |-> <<0, 0>>]

(***************************************************************************)
(* Each specification below runs one part of the package; the variables of *)
(* the other parts then keep these values.                                  *)
(***************************************************************************)
NoLaunchFile == [exists |-> FALSE, syntaxOK |-> FALSE, processes |-> <<>>]

NoLaunchCall == [op |-> "none", api |-> <<0, 0>>, err |-> ErrNil, Processes |-> <<>>]

ZeroRequire ==
    [Name |-> "", Version |-> "",
     Metadata |-> [isNil |-> TRUE, version |-> NoValue, other |-> NoValue]]

LayerIdle ==
    path = "" /\ fsys = NoFile /\ lastEnc = NoEnc /\ lres = NoCall /\ handles = <<>>

LaunchIdle == lfile = NoLaunchFile /\ lt = NoLaunchCall /\ procs = <<>>

RequireIdle == req = ZeroRequire /\ reqPre = ZeroRequire /\ rres = [op |-> "none"]

NoPlan == [Entries |-> <<>>]

NoPlanCall == [op |-> "none", Entries |-> <<>>]

PlanIdle == plan = NoPlan /\ unmet = <<>> /\ planPre = NoPlan /\ pres = NoPlanCall

LayerInit ==
    /\ path \in Paths
    /\ fsys \in Files
    /\ lastEnc = NoEnc
    /\ lres = NoCall
    /\ handles = <<>>
    /\ LaunchIdle /\ RequireIdle /\ PlanIdle

Encode(v, api) ==
    LET r == EncodeLayerMetadataFile(v, api)
    IN  /\ fsys' = r.file
        /\ lastEnc' = [valid |-> r.err = ErrNil, v |-> v, api |-> api]
        /\ lres' = [op |-> "encode", api |-> api, strategy |-> Strategy(api),
                    out |-> Outcome(ZeroLayerMetadataFile, NoMsg, r.err, 0)]
        /\ handles' = EncodeHandles(api)
        /\ UNCHANGED <<path, launchVars, requireVars, planVars>>

Decode(api, derr) ==
    LET r == DecodeLayerMetadataFile(path, fsys, api, derr)
    IN  /\ lres' = [op |-> "decode", api |-> api, strategy |-> r.strategy, out |-> r.out]
        /\ handles' = DecodeHandles(fsys, api, derr)
        /\ UNCHANGED <<path, fsys, lastEnc, launchVars, requireVars, planVars>>

LayerNext ==
    \/ \E v \in LayerMetadataFiles, api \in Apis : Encode(v, api)
    \/ \E api \in Apis, derr \in BOOLEAN : Decode(api, derr)

LayerSpec == LayerInit /\ [][LayerNext]_vars

(***************************************************************************)
(* Claims about the layer metadata codec, checked under LayerSpec.         *)
(***************************************************************************)
\* the last call was a decode of the file that the last encode wrote, under
\* the same API
RoundTrip ==
    /\ lres.op = "decode"
    /\ lastEnc.valid
    /\ lres.api = lastEnc.api

FlagKeys == {"build", "launch", "cache"}

\* C1: for every API >= 0.6 and every LayerMetadataFile v, decoding what
\* EncodeLayerMetadataFile(v) wrote succeeds with Data = v.Data, the three
\* flags false and an empty advisory.
C1_CurrentRoundTrip ==
    (RoundTrip /\ AtLeast(lres.api, <<0, 6>>)) =>
        /\ lres.out.err = ErrNil
        /\ lres.out.lmf.Data = lastEnc.v.Data
        /\ ~lres.out.lmf.Build /\ ~lres.out.lmf.Launch /\ ~lres.out.lmf.Cache
        /\ lres.out.msg = NoMsg

C1_Witness ==
    /\ RoundTrip /\ AtLeast(lres.api, <<0, 6>>)
    /\ lastEnc.v.Build /\ lastEnc.v.Cache /\ ~lastEnc.v.Launch
    /\ lastEnc.v.Data.kind = "table"
    /\ lres.out.lmf.Data.kind = "table"

\* C2: for every API < 0.6 and every LayerMetadataFile v, decoding what
\* EncodeLayerMetadataFile(v) wrote succeeds and returns v itself (Data,
\* Build, Launch and Cache), with an empty advisory.
C2_LegacyRoundTrip ==
    (RoundTrip /\ LessThan(lres.api, <<0, 6>>)) =>
        /\ lres.out.err = ErrNil
        /\ lres.out.lmf = lastEnc.v
        /\ lres.out.msg = NoMsg

C2_Witness ==
    /\ RoundTrip /\ LessThan(lres.api, <<0, 6>>)
    /\ lastEnc.v.Build /\ ~lastEnc.v.Launch /\ lastEnc.v.Cache
    /\ lastEnc.v.Data.kind = "table"
    /\ lres.out.lmf.Build /\ lres.out.lmf.Cache

\* C3: decoding a path where no file exists returns the zero
\* LayerMetadataFile, an empty advisory and no error, for every API; no
\* strategy is selected and the file is never parsed.
C3_MissingFile ==
    (lres.op = "decode" /\ ~fsys.exists) =>
        /\ lres.out.lmf = ZeroLayerMetadataFile
        /\ lres.out.msg = NoMsg
        /\ lres.out.err = ErrNil
        /\ lres.strategy = "none"
        /\ lres.out.parses = 0

C3_Witness ==
    /\ lres.op = "decode" /\ ~fsys.exists
    /\ lres.api = <<0, 5>>
    /\ lres.out.err = ErrNil

\* the file parses and holds a key in the wrong place for the API
Misplaced(f, api) ==
    /\ f.exists /\ f.syntaxOK
    /\ IF AtLeast(api, <<0, 6>>)
       THEN \E k \in FlagKeys : f[k] # Absent
       ELSE f.types.kind # "absent"

\* the values of the keys that the API's typed target reads have the TOML
\* types of its fields
WellTyped(f, api) ==
    IF AtLeast(api, <<0, 6>>)
    THEN f.types.kind # "other" /\ \A k \in FlagKeys : f.types[k] # "other"
    ELSE \A k \in FlagKeys : f[k] # "other"

\* what C4 says of a decode of a file with a misplaced key
MisplacedTolerated ==
    /\ lres.out.err = ErrNil
    /\ IF AtLeast(lres.api, <<0, 6>>)
       THEN /\ lres.out.lmf.Build = (fsys.types.build = "true")
            /\ lres.out.lmf.Launch = (fsys.types.launch = "true")
            /\ lres.out.lmf.Cache = (fsys.types.cache = "true")
            /\ Len(lres.out.msg) > 0
            /\ lres.out.msg[Len(lres.out.msg)] = path
       ELSE /\ lres.out.lmf.Build = (fsys.build = "true")
            /\ lres.out.lmf.Launch = (fsys.launch = "true")
            /\ lres.out.lmf.Cache = (fsys.cache = "true")
            /\ lres.out.msg = MsgTypesUnsupported

\* C4 as stated: decoding a syntactically valid file with a misplaced key
\* never fails, the flags come from the API's own place and the advisory is
\* returned; the advisory is empty exactly when no key is misplaced.
C4_Original ==
    lres.op = "decode" =>
        /\ Misplaced(fsys, lres.api) => MisplacedTolerated
        /\ (lres.out.msg = NoMsg) <=> ~Misplaced(fsys, lres.api)

\* C4 (amended): the same, for files whose values for the keys that the
\* API's typed target reads have the types of its fields.
C4_MisplacedKeys ==
    lres.op = "decode" =>
        /\ (Misplaced(fsys, lres.api) /\ WellTyped(fsys, lres.api)) => MisplacedTolerated
        /\ (lres.out.msg = NoMsg) <=> ~Misplaced(fsys, lres.api)

C4_Witness ==
    /\ lres.op = "decode"
    /\ LessThan(lres.api, <<0, 6>>)
    /\ Misplaced(fsys, lres.api) /\ WellTyped(fsys, lres.api)
    /\ fsys.types.build = "true" /\ fsys.build = Absent /\ fsys.launch = "true"
    /\ lres.out.err = ErrNil
    /\ lres.out.lmf.Launch /\ ~lres.out.lmf.Build

\* C5 as stated: a syntax error in an existing file makes the decode return
\* the zero value and the position-annotated error, under both strategies.
C5_SyntaxErrorAnnotated ==
    (lres.op = "decode" /\ fsys.exists /\ ~fsys.syntaxOK) =>
        /\ lres.out.lmf = ZeroLayerMetadataFile
        /\ lres.out.err = ErrAnnotated

(***************************************************************************)
(* Launch descriptor decoder (part_000, launch.toml).                       *)
(***************************************************************************)
MaxProcesses == 2

\* command strings of legacy files, and command lists of current files
CommandStrings == {"", "npm start"}

CommandLists == {<<>>, <<"npm">>, <<"npm", "start">>, <<"start", "npm">>}

SeqsUpTo(S, n) == UNION {[1..k -> S] : k \in 0..n}

\* the `command` key of a process in the file: absent, a string or a list
\* of strings
FileCommands ==
    {[kind |-> "absent", s |-> "", l |-> <<>>]}
    \cup [kind : {"string"}, s : CommandStrings, l : {<<>>}]
    \cup [kind : {"list"}, s : {""}, l : CommandLists]

\* a [[processes]] entry of the file; direct is absent, true or false
FileProcesses == [command : FileCommands, direct : {Absent, "true", "false"}]

BadLaunchFile == [exists |-> TRUE, syntaxOK |-> FALSE, processes |-> <<>>]

LaunchFiles ==
    {NoLaunchFile, BadLaunchFile}
    \cup [exists : {TRUE}, syntaxOK : {TRUE},
          processes : SeqsUpTo(FileProcesses, MaxProcesses)]

ErrOpen == "open: no such file or directory"

ErrDirect == "process.direct is not supported on this buildpack version"

\* Decoder into a *bool field: nil when the key is absent
DecodeOptBool(k) == IF k = Absent THEN "nil" ELSE k

\* Decoder into ProcessEntryBeforeV9: command is a string
\* (RawCommandValue string `toml:"command"`, Command `toml:"-"`)
DecodeProcessEntryBeforeV9(fp) ==
    [Command |-> <<>>,
     RawCommandValue |-> IF fp.command.kind = "string" THEN fp.command.s ELSE "",
     Direct |-> DecodeOptBool(fp.direct)]

\* Decoder into ProcessEntry: command is a list of strings
DecodeProcessEntry(fp) ==
    [Command |-> <<>>,
     RawCommandValue |-> IF fp.command.kind = "list" THEN fp.command.l ELSE <<>>,
     Direct |-> DecodeOptBool(fp.direct)]

\* mutant: the legacy shim wraps the empty string too
ShimBeforeV9_WrapsEmpty(proc) ==
    [Command |-> proc.Command,
     RawCommandValue |-> <<proc.RawCommandValue>>,
     Direct |-> proc.Direct]

\* the ProcessEntry np made from a ProcessEntryBeforeV9 (part_000:80-92)
ShimBeforeV9(proc) ==
    [Command |-> proc.Command,
     RawCommandValue |-> IF proc.RawCommandValue # "" THEN <<proc.RawCommandValue>> ELSE <<>>,
     Direct |-> proc.Direct]

\* mutant: the legacy default of Direct is left out
NormalizeBeforeV9_NoDefault(process) ==
    [process EXCEPT !.Command = process.RawCommandValue]

\* the loop body for commandsAreStrings (part_000:107-113)
NormalizeBeforeV9(process) ==
    [process EXCEPT
        !.Direct = IF process.Direct = "nil" THEN "false" ELSE process.Direct,
        !.Command = process.RawCommandValue]

\* mutant: direct = false is let through
FirstDirect_OnlyTrue(ps) ==
    IF \E i \in 1..Len(ps) : ps[i].Direct = "true"
    THEN CHOOSE i \in 1..Len(ps) :
            /\ ps[i].Direct = "true"
            /\ \A j \in 1..(i - 1) : ps[j].Direct # "true"
    ELSE 0

\* the index of the first process at which the loop for API >= 0.9 returns
\* the direct error (part_000:116-118), 0 when it runs to the end
FirstDirect(ps) ==
    IF \E i \in 1..Len(ps) : ps[i].Direct # "nil"
    THEN CHOOSE i \in 1..Len(ps) :
            /\ ps[i].Direct # "nil"
            /\ \A j \in 1..(i - 1) : ps[j].Direct = "nil"
    ELSE 0

\* DecodeLaunchTOML into a zero LaunchTOML: the error and launchTOML.Processes
\* (on a decode error the processes are not looked at again and are modelled
\* as empty)
DecodeLaunchTOML(f, api, derr) ==
    LET commandsAreStrings == LessThan(api, <<0, 9>>)
        n == Len(f.processes)
    IN  IF ~f.exists THEN [err |-> ErrOpen, Processes |-> <<>>]
        ELSE IF commandsAreStrings
        THEN LET err == DecodeErr(f, \A i \in 1..n : f.processes[i].command.kind # "list", derr)
             IN  IF err # ErrNil
                 THEN [err |-> Annotate(err), Processes |-> <<>>]
                 ELSE [err |-> ErrNil,
                       Processes |->
                          [i \in 1..n |->
                              NormalizeBeforeV9(ShimBeforeV9(
                                  DecodeProcessEntryBeforeV9(f.processes[i])))]]
        ELSE LET err == DecodeErr(f, \A i \in 1..n : f.processes[i].command.kind # "string", derr)
                 ps == [i \in 1..n |-> DecodeProcessEntry(f.processes[i])]
                 k == FirstDirect(ps)
             IN  IF err # ErrNil
                 THEN [err |-> Annotate(err), Processes |-> <<>>]
                 ELSE [err |-> IF k = 0 THEN ErrNil ELSE ErrDirect,
                       Processes |->
                          [i \in 1..n |->
                              IF k = 0 \/ i < k
                              THEN [ps[i] EXCEPT !.Command = ps[i].RawCommandValue]
                              ELSE ps[i]]]

\* mutant: an unset Direct resolves to false
ToLaunchProcess_NilIsFalse(p) ==
    [Command |-> p.Command, Direct |-> p.Direct = "true"]

\* ProcessEntry.ToLaunchProcess
ToLaunchProcess(p) ==
    [Command |-> p.Command,
     Direct |-> IF p.Direct = "nil" THEN TRUE ELSE p.Direct = "true"]

\* LaunchTOML.ToLaunchProcessesForBuildpack
ToLaunchProcessesForBuildpack(ps) == [i \in 1..Len(ps) |-> ToLaunchProcess(ps[i])]

LaunchInit ==
    /\ lfile \in LaunchFiles
    /\ lt = NoLaunchCall
    /\ procs = <<>>
    /\ LayerIdle /\ RequireIdle /\ PlanIdle

DecodeLaunch(api, derr) ==
    LET r == DecodeLaunchTOML(lfile, api, derr)
    IN  /\ lt' = [op |-> "decode", api |-> api, err |-> r.err, Processes |-> r.Processes]
        /\ procs' = <<>>
        /\ UNCHANGED <<lfile, layerVars, requireVars, planVars>>

ConvertProcesses ==
    /\ lt.op = "decode"
    /\ lt' = [lt EXCEPT !.op = "converted"]
    /\ procs' = ToLaunchProcessesForBuildpack(lt.Processes)
    /\ UNCHANGED <<lfile, layerVars, requireVars, planVars>>

LaunchNext ==
    \/ \E api \in Apis, derr \in BOOLEAN : DecodeLaunch(api, derr)
    \/ ConvertProcesses

LaunchSpec == LaunchInit /\ [][LaunchNext]_vars

(***************************************************************************)
(* Claims about the launch descriptor decoder, checked under LaunchSpec.   *)
(***************************************************************************)
\* the last DecodeLaunchTOML call succeeded
LaunchDecoded == lt.op \in {"decode", "converted"} /\ lt.err = ErrNil

\* C6: after a successful DecodeLaunchTOML every process entry has Command =
\* RawCommandValue; under API < 0.9 a non-empty command string s gives
\* Command = <<s>> and an empty or absent command gives an empty Command;
\* under API >= 0.9 Command is the list of the file, element for element.
C6_CommandResolved ==
    LaunchDecoded =>
        /\ Len(lt.Processes) = Len(lfile.processes)
        /\ \A i \in 1..Len(lt.Processes) :
            LET p == lt.Processes[i]
                c == lfile.processes[i].command
            IN  /\ p.Command = p.RawCommandValue
                /\ IF LessThan(lt.api, <<0, 9>>)
                   THEN /\ (c.kind = "string" /\ c.s # "") => p.Command = <<c.s>>
                        /\ (c.kind = "absent" \/ (c.kind = "string" /\ c.s = ""))
                              => p.Command = <<>>
                   ELSE /\ c.kind = "list" => p.Command = c.l
                        /\ c.kind = "absent" => p.Command = <<>>

C6_Witness ==
    /\ LaunchDecoded /\ LessThan(lt.api, <<0, 9>>)
    /\ Len(lt.Processes) = 2
    /\ lfile.processes[1].command.kind = "string"
    /\ lfile.processes[1].command.s = "npm start"
    /\ lt.Processes[1].Command = <<"npm start">>
    /\ lfile.processes[2].command.kind = "string"
    /\ lfile.processes[2].command.s = ""
    /\ lt.Processes[2].Command = <<>>

\* some process entry of the file holds the direct key
HasDirectKey(f) == \E i \in 1..Len(f.processes) : f.processes[i].direct # Absent

\* some process entry of the file gives command as a string, which does not
\* fit the []string field of the current shape
HasStringCommand(f) ==
    \E i \in 1..Len(f.processes) : f.processes[i].command.kind = "string"

\* C7 as stated: under API >= 0.9 the decode of an existing file returns an
\* error iff the file is malformed (a syntax error) or a process entry holds
\* the direct key; with no direct key the decode succeeds with Direct nil.
C7_Original ==
    (lt.op = "decode" /\ AtLeast(lt.api, <<0, 9>>) /\ lfile.exists) =>
        /\ (lt.err # ErrNil) <=> (~lfile.syntaxOK \/ HasDirectKey(lfile))
        /\ (lfile.syntaxOK /\ ~HasDirectKey(lfile)) =>
              /\ lt.err = ErrNil
              /\ \A i \in 1..Len(lt.Processes) : lt.Processes[i].Direct = "nil"

\* C7 (amended): under API >= 0.9 the decode returns an error iff the file
\* is missing, has a syntax error, gives a command as a string, or holds the
\* direct key in a process entry (true or false); otherwise it succeeds and
\* every decoded entry has Direct nil.
C7_DirectRejected ==
    (lt.op = "decode" /\ AtLeast(lt.api, <<0, 9>>)) =>
        /\ (lt.err # ErrNil) <=>
              \/ ~lfile.exists
              \/ ~lfile.syntaxOK
              \/ HasStringCommand(lfile)
              \/ HasDirectKey(lfile)
        /\ lt.err = ErrNil =>
              /\ Len(lt.Processes) = Len(lfile.processes)
              /\ \A i \in 1..Len(lt.Processes) : lt.Processes[i].Direct = "nil"

C7_Witness ==
    /\ lt.op = "decode" /\ AtLeast(lt.api, <<0, 9>>)
    /\ lfile.exists /\ lfile.syntaxOK /\ ~HasStringCommand(lfile)
    /\ Len(lfile.processes) = 2
    /\ lfile.processes[1].direct = Absent
    /\ lfile.processes[2].direct = "false"
    /\ lt.err = ErrDirect

\* C8: ToLaunchProcess resolves an unset Direct to true and a set Direct to
\* its value; a process decoded under API < 0.9 has Direct set (false when
\* the file has no direct key, else the file's value) and its launch process
\* has that value; one decoded under API >= 0.9 has direct = true.
C8_DirectResolved ==
    /\ LaunchDecoded =>
        \A i \in 1..Len(lt.Processes) :
            IF LessThan(lt.api, <<0, 9>>)
            THEN lt.Processes[i].Direct =
                    (IF lfile.processes[i].direct = "true" THEN "true" ELSE "false")
            ELSE lt.Processes[i].Direct = "nil"
    /\ lt.op = "converted" =>
        /\ Len(procs) = Len(lt.Processes)
        /\ \A i \in 1..Len(procs) :
            /\ lt.Processes[i].Direct = "nil" => procs[i].Direct = TRUE
            /\ lt.Processes[i].Direct # "nil" =>
                  procs[i].Direct = (lt.Processes[i].Direct = "true")
            /\ procs[i].Command = lt.Processes[i].Command
            /\ (lt.err = ErrNil /\ LessThan(lt.api, <<0, 9>>)) =>
                  procs[i].Direct = (lfile.processes[i].direct = "true")
            /\ (lt.err = ErrNil /\ AtLeast(lt.api, <<0, 9>>)) => procs[i].Direct = TRUE

C8_Witness ==
    /\ lt.op = "converted" /\ lt.err = ErrNil /\ LessThan(lt.api, <<0, 9>>)
    /\ Len(procs) = 2
    /\ lfile.processes[1].direct = Absent /\ procs[1].Direct = FALSE
    /\ lfile.processes[2].direct = "true" /\ procs[2].Direct = TRUE

\* a launch process made from an entry decoded under API >= 0.9
C8_WitnessCurrent ==
    /\ lt.op = "converted" /\ lt.err = ErrNil /\ AtLeast(lt.api, <<0, 9>>)
    /\ Len(procs) = 1
    /\ procs[1].Direct = TRUE
    /\ procs[1].Command = <<"npm", "start">>

(***************************************************************************)
(* Version/metadata reconciliation of a Require (part_000).                 *)
(***************************************************************************)
Names == {"", "rust"}

Versions == {"", "1", "2", "true"}

\* values of Metadata["version"]: strings, an integer and a boolean
VersionValues ==
    [kind : {"string"}, s : {"1", "2"}, n : {0}, b : {FALSE}]
    \cup [kind : {"int"}, s : {""}, n : {1}, b : {FALSE}]
    \cup [kind : {"bool"}, s : {""}, n : {0}, b : {TRUE}]

OtherValues == {NoValue, [kind |-> "string", s |-> "x", n |-> 0, b |-> FALSE]}

StringValue(str) == [kind |-> "string", s |-> str, n |-> 0, b |-> FALSE]

\* Metadata map[string]interface{}: nil, or a map with the keys "version"
\* and "other" (NoValue: the key is not in the map)
NilMetadata == [isNil |-> TRUE, version |-> NoValue, other |-> NoValue]

Metadatas ==
    {NilMetadata}
    \cup [isNil : {FALSE}, version : {NoValue} \cup VersionValues, other : OtherValues]

\* type Require struct
Requires == [Name : Names, Version : Versions, Metadata : Metadatas]

\* fmt.Sprintf("%v", v)
Sprint(v) ==
    IF v.kind = "string" THEN v.s
    ELSE IF v.kind = "int" THEN (IF v.n = 1 THEN "1" ELSE IF v.n = 2 THEN "2" ELSE "0")
    ELSE IF v.kind = "bool" THEN (IF v.b THEN "true" ELSE "false")
    ELSE "<nil>"

\* version, ok := r.Metadata["version"] (a nil map has no key)
HasMetadataVersion(r) == r.Metadata.version.kind # "none"

\* r.Version != version, a string compared with an interface{}: equal only
\* when the dynamic type is string and the strings are equal
StringNeqInterface(str, v) == ~(v.kind = "string" /\ v.s = str)

\* Require.convertMetadataToVersion
convertMetadataToVersion(r) ==
    IF HasMetadataVersion(r)
    THEN [r EXCEPT !.Version = Sprint(r.Metadata.version)]
    ELSE r

\* mutant: Version is not cleared
ConvertVersionToMetadata_KeepsVersion(r) ==
    IF r.Version # ""
    THEN [r EXCEPT !.Metadata = [isNil |-> FALSE, version |-> StringValue(r.Version),
                                 other |-> r.Metadata.other]]
    ELSE r

\* Require.ConvertVersionToMetadata
ConvertVersionToMetadata(r) ==
    IF r.Version # ""
    THEN [r EXCEPT !.Metadata = [isNil |-> FALSE, version |-> StringValue(r.Version),
                                 other |-> r.Metadata.other],
                   !.Version = ""]
    ELSE r

\* Require.hasDoublySpecifiedVersions
hasDoublySpecifiedVersions(r) ==
    IF HasMetadataVersion(r) THEN r.Version # "" ELSE FALSE

\* Require.hasInconsistentVersions
hasInconsistentVersions(r) ==
    IF HasMetadataVersion(r)
    THEN r.Version # "" /\ StringNeqInterface(r.Version, r.Metadata.version)
    ELSE FALSE

\* Require.hasTopLevelVersions
hasTopLevelVersions(r) == r.Version # ""

RequireInit ==
    /\ req \in Requires
    /\ reqPre = req
    /\ rres = [op |-> "none"]
    /\ LayerIdle /\ LaunchIdle /\ PlanIdle

DoConvertVersionToMetadata ==
    /\ reqPre' = req
    /\ req' = ConvertVersionToMetadata(req)
    /\ rres' = [op |-> "ConvertVersionToMetadata"]
    /\ UNCHANGED <<layerVars, launchVars, planVars>>

DoConvertMetadataToVersion ==
    /\ reqPre' = req
    /\ req' = convertMetadataToVersion(req)
    /\ rres' = [op |-> "convertMetadataToVersion"]
    /\ UNCHANGED <<layerVars, launchVars, planVars>>

\* the three predicates, as the validation of a build plan calls them
CheckVersions ==
    /\ reqPre' = req
    /\ req' = req
    /\ rres' = [op |-> "check",
                inconsistent |-> hasInconsistentVersions(req),
                doubly |-> hasDoublySpecifiedVersions(req),
                topLevel |-> hasTopLevelVersions(req)]
    /\ UNCHANGED <<layerVars, launchVars, planVars>>

RequireNext ==
    \/ DoConvertVersionToMetadata
    \/ DoConvertMetadataToVersion
    \/ CheckVersions

RequireSpec == RequireInit /\ [][RequireNext]_vars

(***************************************************************************)
(* Claims about Require, checked under RequireSpec.                         *)
(***************************************************************************)
\* C9 as stated: hasInconsistentVersions is true iff Metadata["version"] is
\* set, Version is non-empty and the string form of Metadata["version"]
\* differs from Version, for every kind of metadata value.
C9_InconsistentIffStringFormsDiffer ==
    rres.op = "check" =>
        (rres.inconsistent <=>
            /\ HasMetadataVersion(req)
            /\ req.Version # ""
            /\ Sprint(req.Metadata.version) # req.Version)

\* C10: after ConvertVersionToMetadata, Version is empty; a non-empty former
\* Version is now Metadata["version"], with Name and every other metadata
\* key unchanged; with an empty former Version nothing changed; the three
\* version predicates are false and a second application changes nothing.
C10_ConvertVersionToMetadata ==
    rres.op = "ConvertVersionToMetadata" =>
        /\ req.Version = ""
        /\ reqPre.Version # "" =>
              /\ ~req.Metadata.isNil
              /\ req.Metadata.version = StringValue(reqPre.Version)
              /\ req.Metadata.other = reqPre.Metadata.other
              /\ req.Name = reqPre.Name
        /\ reqPre.Version = "" => req = reqPre
        /\ ~hasTopLevelVersions(req)
        /\ ~hasDoublySpecifiedVersions(req)
        /\ ~hasInconsistentVersions(req)
        /\ ConvertVersionToMetadata(req) = req

C10_Witness ==
    /\ rres.op = "ConvertVersionToMetadata"
    /\ reqPre.Version = "2"
    /\ reqPre.Metadata.version.kind = "int"
    /\ reqPre.Metadata.other.kind = "string"
    /\ req.Metadata.version = StringValue("2")
    /\ req.Version = ""

\* ConvertVersionToMetadata made the map
C10_WitnessNilMetadata ==
    /\ rres.op = "ConvertVersionToMetadata"
    /\ reqPre.Version = "1" /\ reqPre.Metadata.isNil
    /\ ~req.Metadata.isNil

(***************************************************************************)
(* Plan filtering and BOM projection (part_000).                            *)
(***************************************************************************)
MaxEntries == 3

MaxUnmet == 2

PlanNames == {"A", "B", "C"}

\* the entries of a Plan: Requires that differ in Name and Version
PlanEntries == [Name : PlanNames, Version : {"", "1"}, Metadata : {NilMetadata}]

\* type Plan struct
Plans == [Entries : SeqsUpTo(PlanEntries, MaxEntries)]

\* type Unmet struct
Unmets == [Name : PlanNames]

\* mutant: only the first unmet name is looked at
containsName_FirstOnly(us, name) == Len(us) > 0 /\ us[1].Name = name

\* containsName: the loop over unmet
RECURSIVE containsName(_, _)
containsName(us, name) ==
    IF us = <<>> THEN FALSE
    ELSE IF Head(us).Name = name THEN TRUE
    ELSE containsName(Tail(us), name)

\* the loop of Plan.filter: out grows by append, in the order of entries
RECURSIVE filterLoop(_, _, _)
filterLoop(entries, us, out) ==
    IF entries = <<>> THEN out
    ELSE filterLoop(Tail(entries), us,
                    IF ~containsName(us, Head(entries).Name)
                    THEN Append(out, Head(entries))
                    ELSE out)

\* Plan.filter
filter(p, us) == [Entries |-> filterLoop(p.Entries, us, <<>>)]

\* type GroupElement struct: the zero value
ZeroGroupElement == [ID |-> "", Version |-> ""]

\* Plan.toBOM
toBOM(p) ==
    [i \in 1..Len(p.Entries) |-> [Require |-> p.Entries[i], Buildpack |-> ZeroGroupElement]]

PlanInit ==
    /\ plan \in Plans
    /\ unmet \in SeqsUpTo(Unmets, MaxUnmet)
    /\ planPre = plan
    /\ pres = NoPlanCall
    /\ LayerIdle /\ LaunchIdle /\ RequireIdle

\* p.filter(unmet) on a value receiver: plan itself is not assigned
DoFilter ==
    /\ pres' = [op |-> "filter", Entries |-> filter(plan, unmet).Entries]
    /\ planPre' = plan
    /\ UNCHANGED <<plan, unmet, layerVars, launchVars, requireVars>>

\* p.filter(unmet).toBOM(), as the build phase chains them
DoToBOM ==
    /\ pres.op = "filter"
    /\ pres' = [op |-> "toBOM", Entries |-> toBOM([Entries |-> pres.Entries])]
    /\ planPre' = plan
    /\ UNCHANGED <<plan, unmet, layerVars, launchVars, requireVars>>

PlanNext == DoFilter \/ DoToBOM

PlanSpec == PlanInit /\ [][PlanNext]_vars

(***************************************************************************)
(* Claims about Plan, checked under PlanSpec.                               *)
(***************************************************************************)
UnmetNames == {unmet[i].Name : i \in 1..Len(unmet)}

KeptEntry(e) == e.Name \notin UnmetNames

\* C11: p.filter(u) returns the entries of p whose Name equals no name in u,
\* in their original relative order, duplicates kept, and leaves p's own
\* Entries unchanged.
C11_FilterKeepsMetEntries ==
    pres.op = "filter" =>
        /\ pres.Entries = SelectSeq(planPre.Entries, KeptEntry)
        /\ plan = planPre

C11_Witness ==
    /\ pres.op = "filter"
    /\ Len(plan.Entries) = 3
    /\ plan.Entries[1].Name = "A" /\ plan.Entries[2].Name = "B"
    /\ plan.Entries[3] = plan.Entries[1]
    /\ Len(unmet) = 2 /\ unmet[1].Name = "C" /\ unmet[2].Name = "B"
    /\ pres.Entries = <<plan.Entries[1], plan.Entries[1]>>

(***************************************************************************)
(* Claim about the file handles of the layer metadata calls, checked under *)
(* LayerSpec.                                                               *)
(***************************************************************************)
\* the number of handles a call acquired
Acquired(tr) == Cardinality({i \in 1..Len(tr) : tr[i].ev = "open"})

\* the handles that are open after the first k events of the trace
OpenAfter(tr, k) ==
    {i \in 1..k :
        /\ tr[i].ev = "open"
        /\ ~\E j \in (i + 1)..k : tr[j] = CloseEv(tr[i].h)}

\* every handle acquired is released by the end of the call
AllReleased(tr) == OpenAfter(tr, Len(tr)) = {}

\* C12 as stated: each encode or decode call (of a path where the open
\* succeeds) acquires exactly one file handle, and every handle acquired is
\* released when the call returns.
C12_Original ==
    (lres.op = "encode" \/ (lres.op = "decode" /\ fsys.exists)) =>
        /\ Acquired(handles) = 1
        /\ AllReleased(handles)

\* C12 (amended): an encode call acquires one handle; a decode call acquires
\* none when the file is missing, two when the shallow scan fails and three
\* otherwise (its own, the scan's, the typed decode's), never more than two
\* at once; every handle acquired is released when the call returns.
C12_HandlesReleased ==
    /\ lres.op = "encode" => Acquired(handles) = 1
    /\ lres.op = "decode" =>
          Acquired(handles) =
              (IF ~fsys.exists THEN 0
               ELSE IF lres.out.parses = 1 THEN 2
               ELSE 3)
    /\ (lres.op = "decode" /\ fsys.exists) =>
          (lres.out.parses = 1 <=> ~fsys.syntaxOK)
    /\ \A k \in 0..Len(handles) : Cardinality(OpenAfter(handles, k)) <= 2
    /\ AllReleased(handles)

C12_Witness ==
    /\ lres.op = "decode"
    /\ fsys.exists /\ fsys.syntaxOK
    /\ lres.out.err = ErrAnnotated
    /\ lres.out.msg # NoMsg
    /\ Acquired(handles) = 3
    /\ Cardinality(OpenAfter(handles, 2)) = 2
    /\ AllReleased(handles)

====
